---- MODULE Spec2Model ----
(***************************************************************************)
(* Model of the Beebotte Python client (src/beebotte/__init__.py).         *)
(*                                                                         *)
(* Python strings are TLA+ strings and string formatting is concatenation. *)
(* Python dicts are sequences of <<key, value>> pairs in insertion order,  *)
(* values are tagged pairs <<tag, payload>>.  md5, hmac and base64 are symbolic    *)
(* (injective) string constructors.  Every public method is one action:    *)
(* the call, the transport round trip (the outcome is an input of the      *)
(* action) and the interpretation of the response.                         *)
(***************************************************************************)
EXTENDS Integers, Sequences, FiniteSets, TLC

VARIABLES
  bbt,       \* the BBT object: akey, skey, hostname, port, ssl
  clock,     \* the system clock, in milliseconds since the epoch
  pc,        \* "idle": no call in progress; "done": a call has completed
  op,        \* name of the method that was called
  args,      \* its arguments
  sent,      \* the transport requests issued by the call, in order
  response,  \* the transport response the call received, if any
  result     \* how the call ended: a returned value or a raised exception

vars == <<bbt, clock, pc, op, args, sent, response, result>>

---------------------------------------------------------------------------
(* Bounds *)

ClockStart == 1000        \* the clock at construction, in milliseconds
ClockStep == 600          \* one tick of the clock, in milliseconds
MaxTicks == 1             \* the clock stops after this many ticks
MaxBulk == 2              \* longest data_array given to a bulk call

---------------------------------------------------------------------------
(* Python values *)

None == <<>>
Some(v) == <<v>>

\* A value is <<tag, payload>>: an int, a str, a list of values, a dict
\* (its <<key, value>> pairs in insertion order), True or None-as-a-value.
Num(n) == <<"num", n>>
Str(s) == <<"str", s>>
List(s) == <<"list", s>>
Dict(s) == <<"dict", s>>
True == <<"true", <<>> >>
Null == <<"null", <<>> >>

\* Truth value of an optional argument: None, 0 and "" are false.
TruthyInt(o) == o # None /\ o[1] # 0
TruthyStr(o) == o # None /\ o[1] # ""

\* d[k] on a dict
HasKey(d, k) == \E i \in 1..Len(d[2]) : d[2][i][1] = k
GetItem(d, k) == d[2][(CHOOSE i \in 1..Len(d[2]) : d[2][i][1] = k)][2]
\* d[k] = v on a dict that has no key k yet
SetItem(d, k, val) == Dict(Append(d[2], <<k, val>>))

\* The names bound at module level (imports, endpoints, classes) and the
\* methods of BBT; any other bare name or attribute does not resolve.
ModuleNames ==
  {"json", "time", "hmac", "base64", "hashlib", "requests", "utils", "urllib",
   "__version__", "__publicReadEndpoint__", "__readEndpoint__",
   "__writeEndpoint__", "__publishEndpoint__", "BBT", "Resource", "DataPoint",
   "AuthenticationError", "InternalError", "NotFoundError", "AlreadyExistError",
   "NotAllowedError", "UsageLimitError", "PayloadLimitError", "UnexpectedError",
   "BadRequestError", "ParameterError", "TypeError", "BadTypeError"}

BBTMethods ==
  {"sign", "__signRequest__", "__processResponse__", "__postData__",
   "__getData__", "readPublic", "read", "write", "writeBulk", "publish",
   "publishBulk", "auth_client"}

__publicReadEndpoint__ == "/vi/public/data/read"
__readEndpoint__ == "/v1/data/read"
__writeEndpoint__ == "/v1/data/write"
__publishEndpoint__ == "/v1/data/publish"

---------------------------------------------------------------------------
(* How a call ends *)

Return(v) == [kind |-> "return", exc |-> "", value |-> v]
Raise(e) == [kind |-> "raise", exc |-> e, value |-> Null]
NoResult == [kind |-> "none", exc |-> "", value |-> Null]

NoResponse == [status |-> 0, text |-> ""]

\* What a (partial) execution of a method has done: the requests it issued,
\* the response it got and its result.
Outcome(s, rsp, res) == [sent |-> s, response |-> rsp, result |-> res]

---------------------------------------------------------------------------
(* json.dumps(..., separators=(',', ':')) and json.loads *)

RECURSIVE JsonDumps(_)
RECURSIVE JsonItems(_, _)
RECURSIVE JsonMembers(_, _)

JsonItems(s, i) ==
  IF i > Len(s) THEN ""
  ELSE (IF i > 1 THEN "," ELSE "") \o JsonDumps(s[i]) \o JsonItems(s, i + 1)

JsonMembers(s, i) ==
  IF i > Len(s) THEN ""
  ELSE (IF i > 1 THEN "," ELSE "") \o "\"" \o s[i][1] \o "\":"
         \o JsonDumps(s[i][2]) \o JsonMembers(s, i + 1)

JsonDumps(x) ==
  CASE x[1] = "num" -> ToString(x[2])
    [] x[1] = "str" -> "\"" \o x[2] \o "\""
    [] x[1] = "true" -> "true"
    [] x[1] = "null" -> "null"
    [] x[1] = "list" -> "[" \o JsonItems(x[2], 1) \o "]"
    [] x[1] = "dict" -> "{" \o JsonMembers(x[2], 1) \o "}"

JsonRecord(d, ts) == Dict(<< <<"data", Num(d)>>, <<"ts", Num(ts)>> >>)
ErrorDoc(c, m) == Dict(<< <<"error", Dict(<< <<"code", Num(c)>>, <<"message", Str(m)>> >>)>> >>)

\* Application error codes a server answers with (9999 stands for a code
\* the client does not know).
ErrCodes ==
  {1101, 1102, 1201, 1301, 1302, 1303, 1304, 1305, 1306,
   1401, 1403, 1404, 1405, 1406, 9999}

\* HTTP statuses a server answers with (403 stands for a status the client
\* does not know).
Statuses == {200, 400, 403, 404, 405, 500}

SuccessDocs ==
  {List(<<>>), List(<<JsonRecord(21, 1000)>>),
   List(<<JsonRecord(21, 1000), JsonRecord(22, 900)>>), True}

ErrorDocs == {ErrorDoc(c, "m") : c \in ErrCodes}

\* JSON documents that are not an error body: no "error", an "error" that
\* lacks "code" or "message", an "error" that is not an object.
OtherDocs ==
  {Dict(<<>>),
   Dict(<< <<"error", Dict(<< <<"message", Str("m")>> >>)>> >>),
   Dict(<< <<"error", Dict(<< <<"code", Num(1101)>> >>)>> >>),
   Dict(<< <<"error", Str("m")>> >>)}

Documents == SuccessDocs \cup ErrorDocs \cup OtherDocs

\* Response bodies that are not JSON.
GarbageTexts == {"", "<html>"}

\* json.loads: the document the text is the serialisation of, if any.
IsJson(text) == \E d \in Documents : JsonDumps(d) = text
JsonLoads(text) == CHOOSE d \in Documents : JsonDumps(d) = text

\* What the transport (requests.get / requests.post) does with a request:
\* it raises, or it delivers a status and a body text.
TransportOutcomes ==
  {[ok |-> FALSE, status |-> 0, text |-> ""]}
  \cup {[ok |-> TRUE, status |-> s, text |-> JsonDumps(d)] :
          s \in Statuses, d \in ErrorDocs}
  \cup {[ok |-> TRUE, status |-> s, text |-> JsonDumps(d)] :
          s \in {200, 404}, d \in SuccessDocs}
  \cup {[ok |-> TRUE, status |-> s, text |-> JsonDumps(d)] :
          s \in {200, 400, 404}, d \in OtherDocs}
  \cup {[ok |-> TRUE, status |-> s, text |-> g] :
          s \in {200, 400, 500}, g \in GarbageTexts}

\* One outcome of each sort, for the calls whose arguments vary widely; the
\* transport helpers are called with every outcome.
TransportSample ==
  {[ok |-> FALSE, status |-> 0, text |-> ""]}
  \cup {[ok |-> TRUE, status |-> 200, text |-> JsonDumps(d)] :
          d \in SuccessDocs}
  \cup {[ok |-> TRUE, status |-> 400, text |-> JsonDumps(ErrorDoc(1101, "m"))],
        [ok |-> TRUE, status |-> 404, text |-> JsonDumps(ErrorDoc(1301, "m"))],
        [ok |-> TRUE, status |-> 500, text |-> JsonDumps(ErrorDoc(9999, "m"))],
        [ok |-> TRUE, status |-> 403, text |-> JsonDumps(ErrorDoc(1101, "m"))],
        [ok |-> TRUE, status |-> 200, text |-> JsonDumps(ErrorDoc(1101, "m"))],
        [ok |-> TRUE, status |-> 400, text |-> JsonDumps(Dict(<<>>))],
        [ok |-> TRUE, status |-> 200, text |-> "<html>"]}

---------------------------------------------------------------------------
(* Signing *)

md5(s) == "md5(" \o s \o ")"
b64encode(s) == "b64(" \o s \o ")"
hmac_sha1(key, msg) == "hmac-sha1(" \o key \o "," \o msg \o ")"

sign(stringToSign) ==
  bbt.akey \o ":" \o b64encode(hmac_sha1(bbt.skey, stringToSign))

\* __signRequest__ with the content type and the date exchanged.
signRequest_Mutant(verb, uri, date, c_type, c_md5) ==
  sign(verb \o "\n" \o c_md5 \o "\n" \o date \o "\n" \o c_type \o "\n" \o uri)

__signRequest__(verb, uri, date, c_type, c_md5) ==
  sign(verb \o "\n" \o c_md5 \o "\n" \o c_type \o "\n" \o date \o "\n" \o uri)

\* email.utils.formatdate(): the current time, to the second
formatdate == "Date(" \o ToString(clock \div 1000) \o "s)"

\* round(time.time() * 1000)
NowMillis == clock

---------------------------------------------------------------------------
(* Response classification *)

\* RaiseForError with the 404/1304 branch raising what its neighbours above
\* it raise.
RaiseForError_Mutant(code, errcode) ==
  IF code = 400 THEN
    CASE errcode = 1101 -> "AuthenticationError"
      [] errcode = 1401 -> "ParameterError"
      [] errcode = 1403 -> "BadRequestError"
      [] errcode = 1404 -> "TypeError"
      [] errcode = 1405 -> "BadTypeError"
      [] errcode = 1406 -> "PayloadLimitError"
      [] OTHER -> "UnexpectedError"
  ELSE IF code = 405 THEN
    IF errcode = 1102 THEN "NotAllowedError" ELSE "UnexpectedError"
  ELSE IF code = 500 THEN
    IF errcode = 1201 THEN "InternalError" ELSE "InternalError"
  ELSE IF code = 404 THEN
    CASE errcode = 1301 -> "NotFoundError"
      [] errcode = 1302 -> "NotFoundError"
      [] errcode = 1303 -> "NotFoundError"
      [] errcode = 1304 -> "NotFoundError"
      [] errcode = 1305 -> "AlreadyExistError"
      [] errcode = 1306 -> "AlreadyExistError"
      [] OTHER -> "UnexpectedError"
  ELSE "UnexpectedError"

\* The branch of __processResponse__ for a status >= 400: the exception
\* class raised for (code, errcode).
RaiseForError(code, errcode) ==
  IF code = 400 THEN
    CASE errcode = 1101 -> "AuthenticationError"
      [] errcode = 1401 -> "ParameterError"
      [] errcode = 1403 -> "BadRequestError"
      [] errcode = 1404 -> "TypeError"
      [] errcode = 1405 -> "BadTypeError"
      [] errcode = 1406 -> "PayloadLimitError"
      [] OTHER -> "UnexpectedError"
  ELSE IF code = 405 THEN
    IF errcode = 1102 THEN "NotAllowedError" ELSE "UnexpectedError"
  ELSE IF code = 500 THEN
    IF errcode = 1201 THEN "InternalError" ELSE "InternalError"
  ELSE IF code = 404 THEN
    CASE errcode = 1301 -> "NotFoundError"
      [] errcode = 1302 -> "NotFoundError"
      [] errcode = 1303 -> "NotFoundError"
      [] errcode = 1304 -> "AlreadyExistError"
      [] errcode = 1305 -> "AlreadyExistError"
      [] errcode = 1306 -> "AlreadyExistError"
      [] OTHER -> "UnexpectedError"
  ELSE "UnexpectedError"

\* data[key] where data is any parsed JSON value and key a string: the
\* exception the subscription raises, "" when it succeeds.
SubscriptError(data, key) ==
  IF data[1] # "dict" THEN "builtins.TypeError"
  ELSE IF ~HasKey(data, key) THEN "builtins.KeyError"
  ELSE ""

__processResponse__(rsp) ==
  LET code == rsp.status IN
  IF ~IsJson(rsp.text) THEN Raise("builtins.ValueError")
  ELSE
    LET data == JsonLoads(rsp.text) IN
    IF code < 400 THEN Return(data)
    ELSE IF SubscriptError(data, "error") # ""
      THEN Raise(SubscriptError(data, "error"))
    ELSE IF SubscriptError(GetItem(data, "error"), "code") # ""
      THEN Raise(SubscriptError(GetItem(data, "error"), "code"))
    ELSE IF SubscriptError(GetItem(data, "error"), "message") # ""
      THEN Raise(SubscriptError(GetItem(data, "error"), "message"))
    ELSE
      LET errcode == GetItem(GetItem(data, "error"), "code")[2] IN
      Raise(RaiseForError(code, errcode))

---------------------------------------------------------------------------
(* Transport calls *)

BaseUrl ==
  IF bbt.ssl THEN "https" \o "://" \o bbt.hostname \o ":" \o bbt.port
  ELSE "http" \o "://" \o bbt.hostname \o ":" \o bbt.port

\* A request handed to the transport. headers is a dict.
Request(method, url, params, data, headers) ==
  [method |-> method, url |-> url, params |-> params, data |-> data,
   headers |-> headers]

\* The request is issued, then the transport outcome t is interpreted.
Transport(req, t) ==
  IF ~t.ok THEN Outcome(<<req>>, NoResponse, Raise("requests.ConnectionError"))
  ELSE LET rsp == [status |-> t.status, text |-> t.text] IN
       Outcome(<<req>>, rsp, __processResponse__(rsp))

__postData__(uri, data, auth, t) ==
  LET url == BaseUrl \o uri
      md5sum == b64encode(md5(data))
      date == formatdate
      sig == __signRequest__("POST", uri, date, "application/json", md5sum)
      headers ==
        IF auth
        THEN Dict(<< <<"Content-MD5", Str(md5sum)>>,
                     <<"Content-Type", Str("application/json")>>,
                     <<"Date", Str(date)>>, <<"Authorization", Str(sig)>> >>)
        ELSE Dict(<< <<"Content-MD5", Str(md5sum)>>,
                     <<"Content-Type", Str("application/json")>>,
                     <<"Date", Str(date)>> >>)
  IN Transport(Request("POST", url, Dict(<<>>), data, headers), t)

\* urllib's quote_plus on the strings the model uses: a space becomes '+',
\* every other character of these strings is safe.
quote_plus(s) == IF s = "a b" THEN "a+b" ELSE s

\* str(v) of a Python value
PyStr(x) == IF x[1] = "num" THEN ToString(x[2]) ELSE x[2]

RECURSIVE urlencodeFrom(_, _)
urlencodeFrom(q, i) ==
  IF i > Len(q[2]) THEN ""
  ELSE (IF i > 1 THEN "&" ELSE "") \o quote_plus(q[2][i][1]) \o "="
         \o quote_plus(PyStr(q[2][i][2])) \o urlencodeFrom(q, i + 1)

urlencode(query) == urlencodeFrom(query, 1)

__getData__(uri, query, auth, t) ==
  LET url == BaseUrl \o uri
      full_uri == uri \o "?" \o urlencode(query)
      date == formatdate
      sig == __signRequest__("GET", full_uri, date, "application/json", "")
      headers ==
        IF auth
        THEN Dict(<< <<"Content-Type", Str("application/json")>>,
                     <<"Date", Str(date)>>, <<"Authorization", Str(sig)>> >>)
        ELSE Dict(<< <<"Content-Type", Str("application/json")>>,
                     <<"Date", Str(date)>> >>)
  IN Transport(Request("GET", url, query, "", headers), t)

---------------------------------------------------------------------------
(* The methods of BBT.  t is the outcome of the transport call. *)

\* A method that raises before it reaches the transport.
Fails(e) == Outcome(<<>>, NoResponse, Raise(e))

\* The query of readPublic and read, before the sample_rate branch.
ReadQuery(limit, source, time_range, data_filter) ==
  LET q0 == Dict(<< <<"limit", Num(limit)>>, <<"source", Str(source)>> >>)
      q1 == IF TruthyStr(time_range)
            THEN SetItem(q0, "time-range", Str(time_range[1])) ELSE q0
  IN IF TruthyStr(data_filter)
     THEN SetItem(q1, "filter", Str(data_filter[1])) ELSE q1

\* query['sample-rate'] = sample-rate evaluates the names sample and rate.
SampleRateResolves == {"sample", "rate"} \subseteq ModuleNames

readPublic(owner, channel, resource, limit, source, time_range, data_filter, sample_rate, t) ==
  LET query == ReadQuery(limit, source, time_range, data_filter)
      endpoint == __publicReadEndpoint__ \o "/" \o owner \o "/" \o channel
                    \o "/" \o resource
  IN IF TruthyInt(sample_rate) /\ ~SampleRateResolves
     THEN Fails("builtins.NameError")
     ELSE __getData__(endpoint, query, FALSE, t)

read(channel, resource, limit, source, time_range, data_filter, sample_rate, t) ==
  LET query == ReadQuery(limit, source, time_range, data_filter)
      endpoint == __readEndpoint__ \o "/" \o channel \o "/" \o resource
  IN IF TruthyInt(sample_rate) /\ ~SampleRateResolves
     THEN Fails("builtins.NameError")
     ELSE __getData__(endpoint, query, FALSE, t)

write(channel, resource, data, ts, t) ==
  LET body0 == Dict(<< <<"data", Num(data)>> >>)
      body == IF TruthyInt(ts) THEN SetItem(body0, "ts", Num(ts[1]))
              ELSE SetItem(body0, "ts", Num(NowMillis))
      endpoint == __writeEndpoint__ \o "/" \o channel \o "/" \o resource
  IN __postData__(endpoint, JsonDumps(body), TRUE, t)

\* "%s/%s" % ( __writeEndpoint__, channel, resource ) evaluates the name
\* resource, which is neither a parameter nor a module name; were it bound,
\* the format would still be given three values for two conversions.
BulkEndpointError ==
  IF "resource" \notin ModuleNames THEN "builtins.NameError"
  ELSE "builtins.TypeError"

\* The method raises before it reaches __postData__.
writeBulk(channel, data_array) ==
  LET body == Dict(<< <<"data", List(data_array)>> >>)
  IN Fails(BulkEndpointError)

publish(channel, resource, data, ts, source, t) ==
  LET body0 == Dict(<< <<"data", Num(data)>> >>)
      body1 == IF TruthyStr(source)
               THEN SetItem(body0, "source", Str(source[1])) ELSE body0
      body == IF TruthyInt(ts) THEN SetItem(body1, "ts", Num(ts[1]))
              ELSE SetItem(body1, "ts", Num(NowMillis))
      endpoint == __publishEndpoint__ \o "/" \o channel \o "/" \o resource
  IN __postData__(endpoint, JsonDumps(body), TRUE, t)

publishBulk(channel, data_array) ==
  LET body == Dict(<< <<"data", List(data_array)>> >>)
  IN Fails(BulkEndpointError)

\* The value a parameter is bound to: the caller's, or the default of the
\* signature when the caller gives none.
OrDefault(opt, dflt) == IF opt = None THEN dflt ELSE opt[1]

\* auth_client with the read and write flags exchanged in the string.
auth_client_Mutant(sid, channel, resource, ttl, rd, wr) ==
  LET r == IF rd THEN "true" ELSE "false"
      w == IF wr THEN "true" ELSE "false"
      stringToSign == sid \o ":" \o channel \o "." \o resource \o ".:ttl="
                        \o ToString(ttl) \o ":read=" \o w \o ":write=" \o r
  IN Outcome(<<>>, NoResponse, Return(Str(sign(stringToSign))))

auth_client(sid, channel, resource, ttl, rd, wr) ==
  LET r == IF rd THEN "true" ELSE "false"
      w == IF wr THEN "true" ELSE "false"
      stringToSign == sid \o ":" \o channel \o "." \o resource \o ".:ttl="
                        \o ToString(ttl) \o ":read=" \o r \o ":write=" \o w
  IN Outcome(<<>>, NoResponse, Return(Str(sign(stringToSign))))

---------------------------------------------------------------------------
(* The methods of Resource.  self is [channel, resource]; self.bbt is bbt. *)

Resource_write(self, data, ts, t) ==
  write(self.channel, self.resource, data, ts, t)

Resource_publish(self, data, ts, t) ==
  publish(self.channel, self.resource, data, ts, None, t)

Resource_read(self, limit, owner, source, time_range, data_filter, sample_rate, t) ==
  IF TruthyStr(owner)
  THEN IF "publicRead" \notin BBTMethods THEN Fails("builtins.AttributeError")
       ELSE readPublic(owner[1], self.channel, self.resource, limit, source,
                       time_range, data_filter, sample_rate, t)
  ELSE read(self.channel, self.resource, limit, source, time_range, None,
            None, t)

\* value[0] on what read returned
Subscript0(value) ==
  CASE value[1] = "list" ->
         IF Len(value[2]) = 0 THEN Raise("builtins.IndexError")
         ELSE Return(value[2][1])
    [] value[1] = "dict" -> Raise("builtins.KeyError")
    [] OTHER -> Raise("builtins.TypeError")

Resource_recentVal(self, t) ==
  LET out == read(self.channel, self.resource, 1, "raw", None, None, None, t)
  IN IF out.result.kind = "raise" THEN out
     ELSE Outcome(out.sent, out.response, Subscript0(out.result.value))

---------------------------------------------------------------------------
(* Arguments the callers give *)

Channels == {"c1", "c2"}
Resources == {"r1", "r2"}
Owners == {"o1", "o2"}
Limits == {1, 750}
Sources == {"raw", "hour-stats"}
TimeRanges == {None, Some("1hour")}
Filters == {None, Some("a b")}
SampleRates == {None, Some(0), Some(1)}
DataValues == {0, 21}
TsValues == {None, Some(0), Some(1234)}
PubSources == {None, Some("sess1")}
Sids == {"sid1"}
Ttls == {0, 60}
AuthChannels == Channels \cup {"presence:chat"}
OptResources == {None} \cup {Some(r) : r \in Resources \cup {"*"}}
OptTtls == {None} \cup {Some(n) : n \in Ttls}
OptFlags == {None, Some(TRUE), Some(FALSE)}

\* One record of a data_array: resource and data, with or without ts.
BulkRecord(resource, data, ts) ==
  IF ts = None
  THEN Dict(<< <<"resource", Str(resource)>>, <<"data", Num(data)>> >>)
  ELSE Dict(<< <<"resource", Str(resource)>>, <<"data", Num(data)>>,
               <<"ts", Num(ts[1])>> >>)

BulkRecords == {BulkRecord(r, 21, ts) : r \in Resources, ts \in TsValues}

RECURSIVE SeqsUpTo(_, _)
SeqsUpTo(S, n) ==
  IF n = 0 THEN {<<>>}
  ELSE LET shorter == SeqsUpTo(S, n - 1)
       IN shorter \cup {Append(q, x) : q \in shorter, x \in S}

DataArrays == SeqsUpTo(BulkRecords, MaxBulk)

Handles == [channel : Channels, resource : Resources]

---------------------------------------------------------------------------
(* The state machine *)

Init ==
  /\ bbt \in [akey : {"AK"}, skey : {"SK"}, hostname : {"api.beebotte.com"},
              port : {"80"}, ssl : BOOLEAN]
  /\ clock = ClockStart
  /\ pc = "idle"
  /\ op = ""
  /\ args = <<>>
  /\ sent = <<>>
  /\ response = NoResponse
  /\ result = NoResult

\* The call name(a) runs to completion with outcome out.
Completes(name, a, out) ==
  /\ pc' = "done"
  /\ op' = name
  /\ args' = a
  /\ sent' = out.sent
  /\ response' = out.response
  /\ result' = out.result
  /\ UNCHANGED <<bbt, clock>>

CallReadPublic ==
  /\ pc = "idle"
  /\ \E o \in Owners, c \in Channels, r \in Resources, l \in Limits,
     s \in Sources, tr \in TimeRanges, f \in Filters, sr \in SampleRates,
     t \in TransportSample :
    Completes("readPublic",
              [owner |-> o, channel |-> c, resource |-> r, limit |-> l,
               source |-> s, time_range |-> tr, data_filter |-> f,
               sample_rate |-> sr],
              readPublic(o, c, r, l, s, tr, f, sr, t))

CallRead ==
  /\ pc = "idle"
  /\ \E c \in Channels, r \in Resources, l \in Limits,
     s \in Sources, tr \in TimeRanges, f \in Filters, sr \in SampleRates,
     t \in TransportSample :
    Completes("read",
              [channel |-> c, resource |-> r, limit |-> l,
               source |-> s, time_range |-> tr, data_filter |-> f,
               sample_rate |-> sr],
              read(c, r, l, s, tr, f, sr, t))

CallWrite ==
  /\ pc = "idle"
  /\ \E c \in Channels, r \in Resources, d \in DataValues, ts \in TsValues,
     t \in TransportSample :
    Completes("write", [channel |-> c, resource |-> r, data |-> d, ts |-> ts],
              write(c, r, d, ts, t))

CallWriteBulk ==
  /\ pc = "idle"
  /\ \E c \in Channels, da \in DataArrays :
    Completes("writeBulk", [channel |-> c, data_array |-> da],
              writeBulk(c, da))

CallPublish ==
  /\ pc = "idle"
  /\ \E c \in Channels, r \in Resources, d \in DataValues, ts \in TsValues,
     s \in PubSources, t \in TransportSample :
    Completes("publish",
              [channel |-> c, resource |-> r, data |-> d, ts |-> ts,
               source |-> s],
              publish(c, r, d, ts, s, t))

CallPublishBulk ==
  /\ pc = "idle"
  /\ \E c \in Channels, da \in DataArrays :
    Completes("publishBulk", [channel |-> c, data_array |-> da],
              publishBulk(c, da))

\* resource, ttl, read and write may be left out by the caller.
CallAuthClient ==
  /\ pc = "idle"
  /\ \E sid \in Sids, c \in AuthChannels, r \in OptResources, ttl \in OptTtls,
        rd \in OptFlags, wr \in OptFlags :
       Completes("auth_client",
                 [sid |-> sid, channel |-> c, resource |-> r, ttl |-> ttl,
                  read |-> rd, write |-> wr],
                 auth_client(sid, c, OrDefault(r, "*"), OrDefault(ttl, 0),
                             OrDefault(rd, FALSE), OrDefault(wr, FALSE)))

\* The two transport helpers are ordinary methods and take auth from their
\* caller.
CallGetData ==
  /\ pc = "idle"
  /\ \E c \in Channels, r \in {"r1"}, l \in Limits, f \in Filters,
     auth \in BOOLEAN, t \in TransportOutcomes :
    LET uri == __readEndpoint__ \o "/" \o c \o "/" \o r
        query == ReadQuery(l, "raw", None, f)
    IN Completes("__getData__", [uri |-> uri, query |-> query, auth |-> auth],
                 __getData__(uri, query, auth, t))

CallPostData ==
  /\ pc = "idle"
  /\ \E c \in Channels, r \in {"r1"}, d \in DataValues,
     auth \in BOOLEAN, t \in TransportOutcomes :
    LET uri == __writeEndpoint__ \o "/" \o c \o "/" \o r
        data == JsonDumps(Dict(<< <<"data", Num(d)>> >>))
    IN Completes("__postData__", [uri |-> uri, data |-> data, auth |-> auth],
                 __postData__(uri, data, auth, t))

CallResourceWrite ==
  /\ pc = "idle"
  /\ \E self \in Handles, d \in DataValues, ts \in TsValues,
     t \in TransportSample :
    Completes("Resource.write", [self |-> self, data |-> d, ts |-> ts],
              Resource_write(self, d, ts, t))

CallResourcePublish ==
  /\ pc = "idle"
  /\ \E self \in Handles, d \in DataValues, ts \in TsValues,
     t \in TransportSample :
    Completes("Resource.publish", [self |-> self, data |-> d, ts |-> ts],
              Resource_publish(self, d, ts, t))

CallResourceRead ==
  /\ pc = "idle"
  /\ \E self \in Handles, l \in Limits, o \in {None} \cup {Some(x) : x \in Owners},
     s \in Sources, tr \in TimeRanges, f \in Filters, sr \in SampleRates,
     t \in TransportSample :
    Completes("Resource.read",
              [self |-> self, limit |-> l, owner |-> o, source |-> s,
               time_range |-> tr, data_filter |-> f, sample_rate |-> sr],
              Resource_read(self, l, o, s, tr, f, sr, t))

CallResourceRecentVal ==
  /\ pc = "idle"
  /\ \E self \in Handles, t \in TransportSample :
    Completes("Resource.recentVal", [self |-> self],
              Resource_recentVal(self, t))

\* Control is back with the caller, which may call again.
Returned ==
  /\ pc = "done"
  /\ pc' = "idle"
  /\ op' = ""
  /\ args' = <<>>
  /\ sent' = <<>>
  /\ response' = NoResponse
  /\ result' = NoResult
  /\ UNCHANGED <<bbt, clock>>

\* Time passes between calls.
Tick ==
  /\ pc = "idle"
  /\ clock < ClockStart + MaxTicks * ClockStep
  /\ clock' = clock + ClockStep
  /\ UNCHANGED <<bbt, pc, op, args, sent, response, result>>

Next ==
  \/ CallReadPublic
  \/ CallRead
  \/ CallWrite
  \/ CallWriteBulk
  \/ CallPublish
  \/ CallPublishBulk
  \/ CallAuthClient
  \/ CallGetData
  \/ CallPostData
  \/ CallResourceWrite
  \/ CallResourcePublish
  \/ CallResourceRead
  \/ CallResourceRecentVal
  \/ Returned
  \/ Tick

Spec == Init /\ [][Next]_vars

TypeOK ==
  /\ pc \in {"idle", "done"}
  /\ result.kind \in {"none", "return", "raise"}
  /\ Len(sent) <= 1

---------------------------------------------------------------------------
(* Vocabulary of the properties *)

PublicNetworkOps ==
  {"readPublic", "read", "write", "writeBulk", "publish", "publishBulk"}

\* The calls whose result is the result of __processResponse__.
ClassifyingOps ==
  {"readPublic", "read", "write", "publish", "__getData__", "__postData__",
   "Resource.write", "Resource.publish", "Resource.read"}

GotResponse == pc = "done" /\ response # NoResponse

ParsedBody == JsonLoads(response.text)

\* The body is an error body: an object whose "error" is an object with
\* "code" and "message".
IsErrorBody ==
  /\ IsJson(response.text)
  /\ ParsedBody[1] = "dict"
  /\ HasKey(ParsedBody, "error")
  /\ GetItem(ParsedBody, "error")[1] = "dict"
  /\ HasKey(GetItem(ParsedBody, "error"), "code")
  /\ HasKey(GetItem(ParsedBody, "error"), "message")

\* The body is well formed for its status.
WellFormed ==
  IF response.status < 400 THEN IsJson(response.text) ELSE IsErrorBody

ErrCodeOf == GetItem(GetItem(ParsedBody, "error"), "code")[2]

\* The table of error kinds, by the name of the exception class of each kind.
TableKind(status, code) ==
  CASE status = 400 /\ code = 1101 -> "AuthenticationError"
    [] status = 400 /\ code = 1401 -> "ParameterError"
    [] status = 400 /\ code = 1403 -> "BadRequestError"
    [] status = 400 /\ code = 1404 -> "TypeError"
    [] status = 400 /\ code = 1405 -> "BadTypeError"
    [] status = 400 /\ code = 1406 -> "PayloadLimitError"
    [] status = 405 /\ code = 1102 -> "NotAllowedError"
    [] status = 500 /\ code = 1201 -> "InternalError"
    [] status = 404 /\ code \in {1301, 1302, 1303} -> "NotFoundError"
    [] status = 404 /\ code \in {1304, 1305, 1306} -> "AlreadyExistError"
    [] OTHER -> "UnexpectedError"

\* The table with every code of status 500 as Internal.
TableKind500(status, code) ==
  IF status = 500 THEN "InternalError" ELSE TableKind(status, code)

---------------------------------------------------------------------------
(* C1 *)

\* C1 as stated: for a well-formed body, a status below 400 returns the
\* parsed body, and a status of 400 or more raises exactly the kind the table
\* gives, Unexpected for every pair that is not in the table.
C1_TableWithUnexpectedDefault ==
  (GotResponse /\ op \in ClassifyingOps /\ WellFormed) =>
    IF response.status < 400
    THEN result.kind = "return" /\ JsonDumps(result.value) = response.text
    ELSE result = Raise(TableKind(response.status, ErrCodeOf))

\* C1, amended: for a well-formed body, a status below 400 returns the parsed
\* body and raises nothing; a status of 400 or more raises the kind the table
\* gives for (status, code), Internal for every code under status 500, and
\* Unexpected for every other pair that is not in the table.
C1_Classification ==
  (GotResponse /\ op \in ClassifyingOps /\ WellFormed) =>
    IF response.status < 400
    THEN result.kind = "return" /\ JsonDumps(result.value) = response.text
    ELSE result = Raise(TableKind500(response.status, ErrCodeOf))

\* A 500 response with a code other than 1201 has been classified.
C1_Witness ==
  /\ GotResponse /\ op \in ClassifyingOps /\ WellFormed
  /\ response.status = 500
  /\ ErrCodeOf = 9999
  /\ result = Raise("InternalError")

---------------------------------------------------------------------------
(* C2 *)

\* C2: a response whose body is not JSON (at any status), or whose body lacks
\* error.code or error.message at a status of 400 or more, makes the call
\* fail with MalformedResponse and with nothing else.
C2_MalformedIsTyped ==
  (GotResponse /\ op \in ClassifyingOps /\ ~WellFormed) =>
    result = Raise("MalformedResponse")

---------------------------------------------------------------------------
(* C3 *)

SentOne == pc = "done" /\ Len(sent) = 1

Header(name) == GetItem(sent[1].headers, name)[2]

\* C3: every request sent by read, write, writeBulk, publish and publishBulk
\* carries an Authorization header, and the request sent by readPublic
\* carries none.
C3_SignedCalls ==
  SentOne =>
    /\ op \in {"read", "write", "writeBulk", "publish", "publishBulk"}
         => HasKey(sent[1].headers, "Authorization")
    /\ op = "readPublic" => ~HasKey(sent[1].headers, "Authorization")

---------------------------------------------------------------------------
(* C4 *)

\* The path the call was asked to reach: the endpoint of the method for the
\* caller's channel and resource, the uri argument for a transport helper.
CalledPath ==
  CASE op = "readPublic" ->
         "/vi/public/data/read/" \o args.owner \o "/" \o args.channel \o "/"
           \o args.resource
    [] op = "read" ->
         "/v1/data/read/" \o args.channel \o "/" \o args.resource
    [] op = "write" ->
         "/v1/data/write/" \o args.channel \o "/" \o args.resource
    [] op = "writeBulk" -> "/v1/data/write/" \o args.channel
    [] op = "publish" ->
         "/v1/data/publish/" \o args.channel \o "/" \o args.resource
    [] op = "publishBulk" -> "/v1/data/publish/" \o args.channel
    [] op \in {"__getData__", "__postData__"} -> args.uri
    [] op = "Resource.write" ->
         "/v1/data/write/" \o args.self.channel \o "/" \o args.self.resource
    [] op = "Resource.publish" ->
         "/v1/data/publish/" \o args.self.channel \o "/" \o args.self.resource
    [] op \in {"Resource.read", "Resource.recentVal"} ->
         "/v1/data/read/" \o args.self.channel \o "/" \o args.self.resource

\* The five fields of the string to sign, from the request that was sent.
SentContentMD5 ==
  IF sent[1].method = "GET" THEN "" ELSE Header("Content-MD5")

SentURI ==
  IF sent[1].method = "GET"
  THEN CalledPath \o "?" \o urlencode(sent[1].params)
  ELSE CalledPath

\* C4: for every authenticated request the signed string is METHOD,
\* ContentMD5, ContentType, Date, URI in that order, joined by single
\* newlines; ContentMD5 is the Content-MD5 header sent, which is the hash of
\* the body sent (the empty string, and no header, for GET); Date is the Date
\* header sent; URI is the path with the encoded query for GET and the path
\* alone for POST.
C4_StringToSign ==
  (SentOne /\ HasKey(sent[1].headers, "Authorization")) =>
    /\ sent[1].url = BaseUrl \o CalledPath
    /\ sent[1].method = "POST" =>
         /\ HasKey(sent[1].headers, "Content-MD5")
         /\ Header("Content-MD5") = b64encode(md5(sent[1].data))
    /\ sent[1].method = "GET" => ~HasKey(sent[1].headers, "Content-MD5")
    /\ Header("Authorization") =
         sign(sent[1].method \o "\n" \o SentContentMD5 \o "\n"
                \o Header("Content-Type") \o "\n" \o Header("Date") \o "\n"
                \o SentURI)

\* An authenticated POST has been sent by write after the clock advanced.
C4_Witness ==
  /\ SentOne
  /\ op = "write"
  /\ clock > ClockStart
  /\ HasKey(sent[1].headers, "Authorization")
  /\ sent[1].method = "POST"

\* An authenticated GET with a filter in its query has been sent.
C4_GetWitness ==
  /\ SentOne
  /\ sent[1].method = "GET"
  /\ HasKey(sent[1].headers, "Authorization")
  /\ HasKey(sent[1].params, "filter")

---------------------------------------------------------------------------
(* C5 *)

TableMethod ==
  IF op \in {"readPublic", "read"} THEN "GET" ELSE "POST"

\* The calls the endpoint table is checked on: a read is given no
\* sample_rate that counts as set.
PlainCall ==
  op \in {"readPublic", "read"} => ~TruthyInt(args.sample_rate)

\* C5: each of the six public network operations issues its request with the
\* method and the path of the endpoint table, for the caller's channel,
\* resource and owner.
C5_EndpointTable ==
  (pc = "done" /\ op \in PublicNetworkOps /\ PlainCall) =>
    /\ Len(sent) = 1
    /\ sent[1].method = TableMethod
    /\ sent[1].url = BaseUrl \o CalledPath

---------------------------------------------------------------------------
(* C6 *)

\* A record with its own current-time ts when it has none.
WithDefaultTs(rec) ==
  IF HasKey(rec, "ts") THEN rec ELSE SetItem(rec, "ts", Num(clock))

\* C6: the body sent by writeBulk and publishBulk holds the caller's records
\* in the caller's order, one per input record, each record without ts given
\* the current time as ts and each record with ts keeping it.
C6_BulkBody ==
  (pc = "done" /\ op \in {"writeBulk", "publishBulk"}) =>
    /\ Len(sent) = 1
    /\ sent[1].data =
         JsonDumps(Dict(<< <<"data",
            List([i \in 1..Len(args.data_array) |->
                    WithDefaultTs(args.data_array[i])])>> >>))

---------------------------------------------------------------------------
(* C7 *)

\* The ts the claim expects in the body.
ExpectedTs == IF args.ts # None THEN args.ts[1] ELSE clock

ExpectedBody ==
  IF op = "publish" /\ args.source # None
  THEN Dict(<< <<"data", Num(args.data)>>, <<"source", Str(args.source[1])>>,
               <<"ts", Num(ExpectedTs)>> >>)
  ELSE Dict(<< <<"data", Num(args.data)>>, <<"ts", Num(ExpectedTs)>> >>)

\* C7: for write and publish the ts in the body sent is the caller's ts for
\* every integer ts the caller supplies, and the current clock value only
\* when the caller supplies none.
C7_TsInBody ==
  (SentOne /\ op \in {"write", "publish"}) =>
    sent[1].data = JsonDumps(ExpectedBody)

---------------------------------------------------------------------------
(* C8 *)

\* C8: each call of a public network operation performs exactly one transport
\* request, whatever its arguments and the transport outcome, and auth_client
\* performs none.
C8_ExactlyOneRequest ==
  pc = "done" =>
    /\ op \in PublicNetworkOps => Len(sent) = 1
    /\ op = "auth_client" => Len(sent) = 0

---------------------------------------------------------------------------
(* C9 *)

\* The query sent has key exactly when given, and then with value val.
CarriesOption(key, given, val) ==
  IF given THEN HasKey(sent[1].params, key)
                  /\ GetItem(sent[1].params, key) = val
  ELSE ~HasKey(sent[1].params, key)

\* C9: for read and readPublic the query sent always has limit and source,
\* and has time-range, filter and sample-rate each exactly when the caller
\* supplied the option, with the caller's value; supplying an option never
\* makes the call fail before the request is sent.  (An option counts as
\* supplied here when its value is one Python takes as true, which is the
\* reading most favourable to the code.)
C9_QueryOptions ==
  (pc = "done" /\ op \in {"read", "readPublic"}) =>
    /\ Len(sent) = 1
    /\ CarriesOption("limit", TRUE, Num(args.limit))
    /\ CarriesOption("source", TRUE, Str(args.source))
    /\ CarriesOption("time-range", TruthyStr(args.time_range),
                     Str(IF args.time_range = None THEN ""
                         ELSE args.time_range[1]))
    /\ CarriesOption("filter", TruthyStr(args.data_filter),
                     Str(IF args.data_filter = None THEN ""
                         ELSE args.data_filter[1]))
    /\ CarriesOption("sample-rate", TruthyInt(args.sample_rate),
                     Num(IF args.sample_rate = None THEN 0
                         ELSE args.sample_rate[1]))

---------------------------------------------------------------------------
(* C10 *)

\* C10: when the read of recentVal succeeds with an empty sequence of records
\* the call fails with NotFound, never with an out-of-range access; with a
\* non-empty sequence it returns the first element.
C10_RecentVal ==
  (GotResponse /\ op = "Resource.recentVal" /\ response.status < 400
     /\ IsJson(response.text) /\ ParsedBody[1] = "list") =>
    IF Len(ParsedBody[2]) = 0
    THEN result = Raise("NotFoundError")
    ELSE result = Return(ParsedBody[2][1])

---------------------------------------------------------------------------
(* C11 *)

\* The arguments of the auth_client call, with the documented defaults for
\* those the caller left out.
AuthResource == IF args.resource = None THEN "*" ELSE args.resource[1]
AuthTtl == IF args.ttl = None THEN 0 ELSE args.ttl[1]
AuthRead == args.read = Some(TRUE)
AuthWrite == args.write = Some(TRUE)

FlagText(b) == IF b THEN "true" ELSE "false"

C11_DefaultsWitness ==
  /\ pc = "done" /\ op = "auth_client"
  /\ args.resource = None /\ args.ttl = None
  /\ args.read = None /\ args.write = None
  /\ result.kind = "return"

---------------------------------------------------------------------------
(* C12 *)

\* What the completed call did.
Observed == Outcome(sent, response, result)

\* What the client operation the handle is to forward to does when it is
\* called with the handle's channel and resource and the caller's options,
\* for the transport outcome t.
ForwardTarget(t) ==
  IF args.owner # None
  THEN readPublic(args.owner[1], args.self.channel, args.self.resource,
                  args.limit, args.source, args.time_range, args.data_filter,
                  args.sample_rate, t)
  ELSE read(args.self.channel, args.self.resource, args.limit, args.source,
            args.time_range, args.data_filter, args.sample_rate, t)

\* C12: Resource.read on a handle bound to (channel, resource) performs the
\* client's public read of owner/channel/resource when owner is set and the
\* client's read of channel/resource when owner is None, in both cases with
\* the caller's limit, source, time_range, data_filter and sample_rate: the
\* call does what that client operation does with those arguments.
C12_ReadForwards ==
  (pc = "done" /\ op = "Resource.read") =>
    \E t \in TransportSample : Observed = ForwardTarget(t)

====
